---- MODULE Spec2Model ----
(***************************************************************************)
(* Model of snowflake-ng (src/src/lib.rs): the bit-packing functions, the  *)
(* lock-free assignment loop of SnowflakeGenerator over the packed         *)
(* (timestamp, sequence) word, and the PersistedSnowflakeGenerator wrapper.*)
(*                                                                         *)
(* A u64 is modelled bit-exactly as the set of positions of its 1 bits     *)
(* (a subset of 0..63), so shifts lose the bits they push out, masks are   *)
(* intersections and no value is cut to the width of the checker's         *)
(* integers.                                                               *)
(***************************************************************************)
EXTENDS Integers, Sequences, FiniteSets, TLC

\* ------------------------------------------------------------- u64 words

\* bit positions of a u64
Bits == 0 .. 63

\* the u64 whose value is the small natural n (n < 2^31)
BitsOf(n) == {b \in 0 .. 30 : (n \div (2 ^ b)) % 2 = 1}

\* the value of a word that fits 16 bits (`as u16`)
RECURSIVE ToNat(_)
ToNat(w) ==
    IF w = {} THEN 0
    ELSE LET b == CHOOSE x \in w : TRUE
         IN  (2 ^ b) + ToNat(w \ {b})

\* w << k on u64: bits pushed past bit 63 are lost
Shl(w, k) == {b + k : b \in {x \in w : x + k <= 63}}

\* w >> k on u64
Shr(w, k) == {b - k : b \in {x \in w : x >= k}}

\* a & b, a | b, !a
And(a, b) == a \cap b
Or(a, b) == a \cup b
Not(a) == Bits \ a

\* (1u64 << n) - 1
LowMask(n) == 0 .. (n - 1)

\* the greatest bit on which two different words differ
TopDiff(a, b) ==
    CHOOSE x \in (a \ b) \cup (b \ a) :
        \A y \in (a \ b) \cup (b \ a) : y <= x

\* a < b as u64
Lt(a, b) == a # b /\ TopDiff(a, b) \in b

\* u64::cmp
Cmp(a, b) ==
    IF a = b THEN "Equal"
    ELSE IF Lt(a, b) THEN "Less" ELSE "Greater"

\* a <= b as i64 (bit 63 is the sign)
I64Le(a, b) ==
    IF (63 \in a) # (63 \in b) THEN 63 \in a
    ELSE a = b \/ Lt(a, b)

\* ---------------------------------------------------------- bit packing

\* fill_timestamp with the truncating mask left out
fill_timestamp_nomask(sid, timestamp) ==
    Or(And(sid, Not(Shl(LowMask(41), 22))), Shl(timestamp, 22))

fill_timestamp(sid, timestamp) ==
    LET MASK == LowMask(41)
        truncated_timestamp == And(timestamp, MASK)
        filled == Shl(truncated_timestamp, 22)
    IN  Or(And(sid, Not(Shl(MASK, 22))), filled)

\* fill_identifier with the truncating mask left out
fill_identifier_nomask(sid, identifier) ==
    Or(And(sid, Not(Shl(LowMask(10), 12))), Shl(identifier, 12))

fill_identifier(sid, identifier) ==
    LET MASK == LowMask(10)
        truncated_identifier == And(identifier, MASK)
        filled == Shl(truncated_identifier, 12)
    IN  Or(And(sid, Not(Shl(MASK, 12))), filled)

\* fill_sequence with the truncating mask left out
fill_sequence_nomask(sid, sequence) ==
    Or(And(sid, Not(LowMask(12))), sequence)

fill_sequence(sid, sequence) ==
    LET MASK == LowMask(12)
        truncated_sequence == And(sequence, MASK)
    IN  Or(And(sid, Not(MASK)), truncated_sequence)

filling(dest, timestamp, identifier, sequence) ==
    LET sid1 == fill_timestamp(dest, timestamp)
        sid2 == fill_identifier(sid1, identifier)
    IN  fill_sequence(sid2, sequence)

\* ------------------------------------------------------------ the state

\* const MAX_SEQUENCE: u16 = 0xFFF
MAX_SEQUENCE == 4095

\* the generators the program constructs (each its own state word)
Generators == {1, 2}

\* the concurrent callers (threads or tasks) of assign
Callers == {"c1", "c2"}

\* calls of assign a bounded workload makes in one run
MaxCalls == 3

\* the slots for PersistedSnowflakeGenerator handles: the original and a clone
Wrappers == {1, 2}

\* readings below 2^41, the width of the timestamp field
NarrowTimes == {BitsOf(0), BitsOf(1), BitsOf(2)}

\* readings the time source may return: 0, 1, 2, one that passes the 41-bit
\* timestamp field (2^41 + 1), one that passes the 48 bits the state word
\* keeps and has bit 63 set (2^63 + 2^48 + 1)
Times == NarrowTimes \cup {{41} \cup BitsOf(1), {63, 48} \cup BitsOf(1)}

\* the identifiers the two generators are built with: 2000 and 2000 mod 1024,
\* u64::MAX and 53
Configurations == {<<BitsOf(2000), BitsOf(976)>>, <<Bits, BitsOf(53)>>}

VARIABLES
    generators,   \* generator -> [timestamp_sequence, cfg]
    persisted,    \* the PersistedSnowflakeGenerator handles, in creation order
    clock,        \* the reading of a time source that follows a clock
    pc,           \* caller -> its position in assign
    self_,        \* caller -> the generator its call runs on (&self)
    via,          \* caller -> the handle its call came through (0: none)
    timestamp,    \* caller -> local `timestamp`
    current,      \* caller -> local `current`
    issued,       \* the last MaxCalls Snowflakes returned, in the order of their CAS
    beaten,       \* caller -> another call's CAS on its generator has succeeded
                  \* since its load
    todo,         \* caller -> calls of assign it still has to make
    endless,      \* the callers that call assign in an endless loop
    fill_in,      \* the arguments of a call of the packing functions
    fill_out,     \* the word the packing functions have produced so far
    fill_done     \* the packing functions applied to fill_out so far

\* the state of a program that calls the packing functions directly
fillvars == <<fill_in, fill_out, fill_done>>

vars ==
    <<generators, persisted, clock, pc, self_, via, timestamp, current,
      issued, beaten, todo, endless, fillvars>>

\* SnowflakeConfiguration::with_identifier
with_identifier(identifier) == [identifier |-> identifier]

\* SnowflakeGenerator::with_cfg
with_cfg(cfg) == [cfg |-> cfg, timestamp_sequence |-> BitsOf(0)]

\* PersistedSnowflakeGenerator::new
new(generator, provider) == [generator |-> generator, provider |-> provider]

\* a clone that holds a generator of its own instead of sharing the handle
clone_fresh(w) ==
    [generator |-> CHOOSE g \in Generators : g # w.generator,
     provider |-> w.provider]

\* impl Clone for PersistedSnowflakeGenerator
clone(w) == [generator |-> w.generator, provider |-> w.provider]

\* no caller is in a call of assign and no ID has been returned
Quiet ==
    /\ pc = [p \in Callers |-> "idle"]
    /\ self_ = [p \in Callers |-> 0]
    /\ via = [p \in Callers |-> 0]
    /\ timestamp = [p \in Callers |-> BitsOf(0)]
    /\ current = [p \in Callers |-> BitsOf(0)]
    /\ issued = <<>>
    /\ beaten = [p \in Callers |-> FALSE]

\* the packing functions have not been called
NoFill ==
    /\ fill_in = [dest |-> BitsOf(0), timestamp |-> BitsOf(0),
                  identifier |-> BitsOf(0), sequence |-> BitsOf(0)]
    /\ fill_out = BitsOf(0)
    /\ fill_done = {}

\* the program after construction, the generators built with one of the
\* configurations cs: two generators, one handle on the first, no call of
\* assign made yet
ConstructedWith(cs) ==
    /\ \E c \in cs :
          generators = [g \in Generators |-> with_cfg(with_identifier(c[g]))]
    /\ persisted = <<new(1, "StdProvider")>>
    /\ Quiet
    /\ NoFill

\* the callers share MaxCalls calls between them; c1 has the larger share
\* (the callers run the same code, so the other half of the splits adds
\* nothing)
BoundedWork ==
    /\ endless = {}
    /\ \E a \in 0 .. MaxCalls :
          /\ a >= MaxCalls - a
          /\ todo = [p \in Callers |-> IF p = "c1" THEN a ELSE MaxCalls - a]

\* one caller issues IDs in an endless loop, the other makes no call
EndlessWork ==
    /\ endless = {"c1"}
    /\ todo = [p \in Callers |-> 0]

Init ==
    /\ ConstructedWith(Configurations)
    /\ BoundedWork
    /\ clock = BitsOf(0)

\* ------------------------------------------------------------ assign

\* current >> 16
current_timestamp(cur) == Shr(cur, 16)

\* (current & 0xFFFF) as u16
current_sequence(cur) == ToNat(And(cur, LowMask(16)))

\* a match that takes every difference for an advance of the clock
match_no_regress(cur, now) ==
    IF current_timestamp(cur) = now THEN "Equal" ELSE "Less"

\* current_timestamp.cmp(&timestamp)
match_ordering(cur, now) == Cmp(current_timestamp(cur), now)

\* an exhaustion test that lets one more sequence through
exhausted_late(seq) == seq > MAX_SEQUENCE

\* an exhaustion test that holds at every sequence
exhausted_always(seq) == seq >= 0

\* current_sequence >= MAX_SEQUENCE
exhausted(seq) == seq >= MAX_SEQUENCE

\* a sequence that is not advanced
new_sequence_same(seq) == seq

\* current_sequence + 1 (u16)
new_sequence(seq) == (seq + 1) % 65536

\* timestamp << 16
new_value_less(now) == Shl(now, 16)

\* (timestamp << 16) | new_sequence as u64
new_value_equal(now, seq) == Or(Shl(now, 16), BitsOf(seq))

\* an ID built without the fill_identifier call
make_sid_anonymous(now, identifier, seq) ==
    fill_sequence(fill_timestamp(BitsOf(0), now), BitsOf(seq))

\* the three fill_* calls of a successful branch
make_sid(now, identifier, seq) ==
    LET sid1 == fill_timestamp(BitsOf(0), now)
        sid2 == fill_identifier(sid1, identifier)
    IN  fill_sequence(sid2, BitsOf(seq))

\* the log of returned Snowflakes, cut to the last MaxCalls
Record(log, e) ==
    LET l == Append(log, e)
    IN  IF Len(l) > MaxCalls THEN Tail(l) ELSE l

\* caller p starts a call of assign on generator g, through handle w (0: none)
Enter(p, g, w) ==
    /\ pc[p] = "idle"
    /\ p \in endless \/ todo[p] > 0
    /\ todo' = IF p \in endless THEN todo ELSE [todo EXCEPT ![p] = @ - 1]
    /\ pc' = [pc EXCEPT ![p] = "loop"]
    /\ self_' = [self_ EXCEPT ![p] = g]
    /\ via' = [via EXCEPT ![p] = w]
    /\ UNCHANGED <<generators, persisted, clock, timestamp, current, issued,
                   beaten, endless, fillvars>>

\* generator.assign(&provider) / assign_sync: the call enters the loop
Call(p, g) == Enter(p, g, 0)

\* PersistedSnowflakeGenerator::assign / assign_sync: forwards to the
\* generator the handle holds
CallPersisted(p, w) ==
    /\ w \in DOMAIN persisted
    /\ Enter(p, persisted[w].generator, w)

\* let timestamp = provider.timestamp(); the provider returns t
ReadTimestamp(p, t) ==
    /\ pc[p] = "loop"
    /\ timestamp' = [timestamp EXCEPT ![p] = t]
    /\ pc' = [pc EXCEPT ![p] = "load"]
    /\ UNCHANGED <<generators, persisted, clock, self_, via, current, issued,
                   beaten, todo, endless, fillvars>>

\* let current = self.timestamp_sequence.load(Ordering::Relaxed);
Load(p) ==
    /\ pc[p] = "load"
    /\ current' = [current EXCEPT ![p] = generators[self_[p]].timestamp_sequence]
    /\ pc' = [pc EXCEPT ![p] = "match"]
    /\ beaten' = [beaten EXCEPT ![p] = FALSE]
    /\ UNCHANGED <<generators, persisted, clock, self_, via, timestamp, issued, todo,
                   endless, fillvars>>

\* a commit to one state word that all the generators share (a static in
\* place of the field)
Commit_static(p, new_value, seq) ==
    LET g == self_[p]
        sid == make_sid(timestamp[p], generators[g].cfg.identifier, seq)
    IN  /\ generators' = [generators EXCEPT ![1].timestamp_sequence = new_value]
        /\ issued' = Record(issued,
              [sid |-> sid, timestamp |-> timestamp[p], sequence |-> seq,
               before |-> generators[g].timestamp_sequence, after |-> new_value,
               generator |-> g, via |-> via[p], caller |-> p])
        /\ pc' = [pc EXCEPT ![p] = "idle"]
        /\ self_' = [self_ EXCEPT ![p] = 0]
        /\ via' = [via EXCEPT ![p] = 0]
        /\ timestamp' = [timestamp EXCEPT ![p] = BitsOf(0)]
        /\ current' = [current EXCEPT ![p] = BitsOf(0)]
        /\ beaten' = [q \in Callers |->
              q # p /\ (beaten[q] \/ (self_[q] = g /\ pc[q] = "match"))]
        /\ UNCHANGED <<persisted, clock, todo, endless, fillvars>>

\* compare_exchange(current, new_value) succeeded: commit and return
Commit(p, new_value, seq) ==
    LET g == self_[p]
        sid == make_sid(timestamp[p], generators[g].cfg.identifier, seq)
    IN  /\ generators' = [generators EXCEPT ![g].timestamp_sequence = new_value]
        /\ issued' = Record(issued,
              [sid |-> sid, timestamp |-> timestamp[p], sequence |-> seq,
               before |-> generators[g].timestamp_sequence, after |-> new_value,
               generator |-> g, via |-> via[p], caller |-> p])
        /\ pc' = [pc EXCEPT ![p] = "idle"]
        /\ self_' = [self_ EXCEPT ![p] = 0]
        /\ via' = [via EXCEPT ![p] = 0]
        /\ timestamp' = [timestamp EXCEPT ![p] = BitsOf(0)]
        /\ current' = [current EXCEPT ![p] = BitsOf(0)]
        /\ beaten' = [q \in Callers |->
              q # p /\ (beaten[q] \/ (self_[q] = g /\ pc[q] = "match"))]
        /\ UNCHANGED <<persisted, clock, todo, endless, fillvars>>

\* an iteration that writes its snapshot back into the state word before
\* it goes round again
Again_writes(p, where) ==
    /\ generators' = [generators EXCEPT ![self_[p]].timestamp_sequence = current[p]]
    /\ pc' = [pc EXCEPT ![p] = where]
    /\ timestamp' = [timestamp EXCEPT ![p] = BitsOf(0)]
    /\ current' = [current EXCEPT ![p] = BitsOf(0)]
    /\ beaten' = [beaten EXCEPT ![p] = FALSE]
    /\ UNCHANGED <<persisted, clock, self_, via, issued, todo, endless, fillvars>>

\* the next iteration of the loop: the locals of this one are gone
Again(p, where) ==
    /\ pc' = [pc EXCEPT ![p] = where]
    /\ timestamp' = [timestamp EXCEPT ![p] = BitsOf(0)]
    /\ current' = [current EXCEPT ![p] = BitsOf(0)]
    /\ beaten' = [beaten EXCEPT ![p] = FALSE]
    /\ UNCHANGED <<generators, persisted, clock, self_, via, issued, todo, endless,
                   fillvars>>

\* the caller drops the future of its call while it is suspended in
\* Delay::new(..).await, the only suspension point of assign
Abandon(p) ==
    /\ pc[p] = "delay"
    /\ pc' = [pc EXCEPT ![p] = "idle"]
    /\ self_' = [self_ EXCEPT ![p] = 0]
    /\ via' = [via EXCEPT ![p] = 0]
    /\ UNCHANGED <<generators, persisted, clock, timestamp, current, issued,
                   beaten, todo, endless, fillvars>>

\* compare_exchange_weak: may fail although the word still holds `current`
CompareExchangeWeak(p, new_value, seq) ==
    \/ /\ generators[self_[p]].timestamp_sequence = current[p]
       /\ Commit(p, new_value, seq)
    \/ Again(p, "loop")

\* a plain store in place of the compare-and-swap
Store(p, new_value, seq) == Commit(p, new_value, seq)

\* compare_exchange: succeeds when the word still holds `current`
CompareExchange(p, new_value, seq) ==
    IF generators[self_[p]].timestamp_sequence = current[p]
    THEN Commit(p, new_value, seq)
    ELSE Again(p, "loop")

\* match current_timestamp.cmp(&timestamp) { Less, Equal, Greater }
Match(p) ==
    /\ pc[p] = "match"
    /\ LET now == timestamp[p]
           seq == current_sequence(current[p])
           ord == match_ordering(current[p], now)
       IN  IF ord = "Less"
           THEN CompareExchange(p, new_value_less(now), 0)
           ELSE IF ord = "Equal"
           THEN IF exhausted(seq)
                THEN Again(p, "delay")
                ELSE CompareExchange(p,
                        new_value_equal(now, new_sequence(seq)), new_sequence(seq))
           ELSE Again(p, "delay")

\* Delay::new(Duration::from_millis(1)).await is over
DelayElapsed(p) ==
    /\ pc[p] = "delay"
    /\ pc' = [pc EXCEPT ![p] = "loop"]
    /\ UNCHANGED <<generators, persisted, clock, self_, via, timestamp, current,
                   issued, beaten, todo, endless, fillvars>>

\* persist.clone()
Clone(w) ==
    /\ w \in DOMAIN persisted
    /\ Len(persisted) < Cardinality(Wrappers)
    /\ persisted' = Append(persisted, clone(persisted[w]))
    /\ UNCHANGED <<generators, clock, pc, self_, via, timestamp, current, issued,
                   beaten, todo, endless, fillvars>>

\* the clock of the time source moves on to a later reading
Tick(t) ==
    /\ Lt(clock, t)
    /\ clock' = t
    /\ UNCHANGED <<generators, persisted, pc, self_, via, timestamp, current,
                   issued, beaten, todo, endless, fillvars>>

\* the callers share generator 1; the time source may return any reading at
\* any call
Next ==
    \/ \E p \in Callers : Call(p, 1)
    \/ \E p \in Callers, t \in Times : ReadTimestamp(p, t)
    \/ \E p \in Callers : Load(p)
    \/ \E p \in Callers : Match(p)
    \/ \E p \in Callers : DelayElapsed(p)

Spec == Init /\ [][Next]_vars

\* the generator each caller uses when the two generators are used side by
\* side
Home(p) == IF p = "c1" THEN 1 ELSE 2

\* two independent generators, each with a caller of its own; the time
\* source may return any reading at any call
NextPair ==
    \/ \E p \in Callers : Call(p, Home(p))
    \/ \E p \in Callers, t \in Times : ReadTimestamp(p, t)
    \/ \E p \in Callers : Load(p)
    \/ \E p \in Callers : Match(p)
    \/ \E p \in Callers : DelayElapsed(p)

SpecPair == Init /\ [][NextPair]_vars

\* the bounded workload of two callers, or one caller that issues IDs in an
\* endless loop
InitAbandon ==
    /\ ConstructedWith({<<Bits, BitsOf(53)>>})
    /\ BoundedWork \/ EndlessWork
    /\ clock = BitsOf(0)

\* the readings a caller's time source may return: any of Times for a caller
\* of the bounded workload; 1 or 2, in any order, for the endless caller,
\* which runs through all the sequences of a millisecond
Readings(p) == IF p \in endless THEN {BitsOf(1), BitsOf(2)} ELSE Times

\* callers use generator 1 and may give a call up while it waits
NextAbandon ==
    \/ \E p \in Callers : Call(p, 1)
    \/ \E p \in Callers : \E t \in Readings(p) : ReadTimestamp(p, t)
    \/ \E p \in Callers : Load(p)
    \/ \E p \in Callers : Match(p)
    \/ \E p \in Callers : DelayElapsed(p)
    \/ \E p \in Callers : Abandon(p)

SpecAbandon == InitAbandon /\ [][NextAbandon]_vars

\* two generators built with the same identifier, 11
InitTwin ==
    /\ ConstructedWith({<<BitsOf(11), BitsOf(11)>>})
    /\ BoundedWork
    /\ clock = BitsOf(0)

\* two independent generators with the same identifier, each with a caller
\* of its own
SpecTwin == InitTwin /\ [][NextPair]_vars

\* callers use generator 1 through its handle and the clones of the handle;
\* the time source may return any reading at any call
NextPersisted ==
    \/ \E p \in Callers, w \in Wrappers : CallPersisted(p, w)
    \/ \E w \in Wrappers : Clone(w)
    \/ \E p \in Callers, t \in Times : ReadTimestamp(p, t)
    \/ \E p \in Callers : Load(p)
    \/ \E p \in Callers : Match(p)
    \/ \E p \in Callers : DelayElapsed(p)

SpecPersisted == Init /\ [][NextPersisted]_vars

\* the steps of caller p inside a call of assign, when the time source
\* follows the clock
Step(p) ==
    \/ ReadTimestamp(p, clock)
    \/ Load(p)
    \/ Match(p)
    \/ DelayElapsed(p)

\* the clock moves on within the readings below 2^41
Advance == \E t \in NarrowTimes : Tick(t)

\* callers use generator 1; the time source follows a clock that only
\* moves forward
NextClock ==
    \/ \E p \in Callers : Call(p, 1)
    \/ \E p \in Callers : Step(p)
    \/ Advance

\* the bounded workload with the clock at 0 when the program starts, or the
\* endless one with the clock at 1
InitClock ==
    /\ ConstructedWith({<<Bits, BitsOf(53)>>})
    /\ \/ BoundedWork /\ clock = BitsOf(0)
       \/ EndlessWork /\ clock = BitsOf(1)

\* weak fairness of Step(p), WF_vars(Step(p)), written with the enabling
\* condition of Step(p), which is pc[p] # "idle"
FairStep(p) == ([]<>(pc[p] = "idle")) \/ []<><<Step(p)>>_vars

\* a caller inside assign keeps being scheduled, a delay ends, and the clock
\* keeps moving while it has a later reading
SpecClock ==
    /\ InitClock
    /\ [][NextClock]_vars
    /\ \A p \in Callers : FairStep(p)
    /\ WF_vars(Advance)

\* ------------------------------------- the packing functions on their own

\* words to fill into: 0, u64::MAX, and a word with one bit in each field
\* and the sign bit
FillWords == {BitsOf(0), Bits, {63, 40, 15, 3}}

\* field values: the ones of the tests (0b101010 and (1 << 42) - 1; 0b110101
\* and (1 << 11) - 1; 0b1001 and (1 << 13) - 1), the first value past each
\* field, and u64::MAX
FillTimestamps == {BitsOf(42), LowMask(42), {41}, Bits}
FillIdentifiers == {BitsOf(53), LowMask(11), BitsOf(1024), Bits}
FillSequences == {BitsOf(9), LowMask(13), BitsOf(4096), Bits}

\* the three packing functions
FillNames == {"timestamp", "identifier", "sequence"}

InitFill ==
    /\ generators = [g \in Generators |-> with_cfg(with_identifier(BitsOf(0)))]
    /\ persisted = <<>>
    /\ Quiet
    /\ clock = BitsOf(0)
    /\ todo = [p \in Callers |-> 0]
    /\ endless = {}
    /\ fill_in \in [dest : FillWords, timestamp : FillTimestamps,
                    identifier : FillIdentifiers, sequence : FillSequences]
    /\ fill_out = fill_in.dest
    /\ fill_done = {}

\* the part of the state the packing functions leave alone
progvars ==
    <<generators, persisted, clock, pc, self_, via, timestamp, current,
      issued, beaten, todo, endless>>

\* filling(dest, timestamp, identifier, sequence)
Filling ==
    /\ fill_done = {}
    /\ fill_out' = filling(fill_in.dest, fill_in.timestamp, fill_in.identifier,
                           fill_in.sequence)
    /\ fill_done' = FillNames
    /\ UNCHANGED <<fill_in, progvars>>

\* one of fill_timestamp, fill_identifier, fill_sequence on the word so far
FillOne(name) ==
    /\ name \notin fill_done
    /\ fill_out' =
          IF name = "timestamp" THEN fill_timestamp(fill_out, fill_in.timestamp)
          ELSE IF name = "identifier" THEN fill_identifier(fill_out, fill_in.identifier)
          ELSE fill_sequence(fill_out, fill_in.sequence)
    /\ fill_done' = fill_done \cup {name}
    /\ UNCHANGED <<fill_in, progvars>>

NextFill ==
    \/ Filling
    \/ \E name \in FillNames : FillOne(name)

SpecFill == InitFill /\ [][NextFill]_vars

\* ------------------------------------------------- fields of a Snowflake

\* bits 62-22, 21-12 and 11-0 of an ID
ts_field(sid) == And(Shr(sid, 22), LowMask(41))
id_field(sid) == And(Shr(sid, 12), LowMask(10))
seq_field(sid) == And(sid, LowMask(12))

\* ((t mod 2^41) << 22) | ((i mod 2^10) << 12) | (s mod 2^12), for fields
\* already reduced
Pack(t, i, s) == Or(Or(Shl(t, 22), Shl(i, 12)), s)

\* a reading below 2^41
Narrow(t) == t \subseteq LowMask(41)

\* every reading generator g has committed is below 2^41
NarrowRun(g) ==
    \A k \in DOMAIN issued : issued[k].generator = g => Narrow(issued[k].timestamp)

\* i was returned before j by the same generator
Earlier(i, j) == i < j /\ issued[i].generator = issued[j].generator

\* n mod 1024 for the identifiers of the model (u64::MAX mod 1024 = 1023)
Mod1024(n) == IF n = Bits THEN BitsOf(1023) ELSE BitsOf(ToNat(n) % 1024)

\* ---------------------------------------------------------------- claims

\* C1 (as stated): the IDs one generator returns are pairwise distinct, for
\* any sequence of readings of the time source.
C1_Unique ==
    \A i, j \in DOMAIN issued : Earlier(i, j) => issued[i].sid # issued[j].sid

\* C1 (amended): the IDs one generator returns are pairwise distinct, under
\* any interleaving of callers, when every reading it commits is below 2^41.
C1_UniqueNarrow ==
    \A i, j \in DOMAIN issued :
        Earlier(i, j) /\ NarrowRun(issued[i].generator)
            => issued[i].sid # issued[j].sid

\* C1 witness: generator 1 has returned three IDs, to both callers, from
\* readings below 2^41, two of them in the same millisecond.
C1_Witness ==
    /\ Len(issued) = 3
    /\ \A k \in DOMAIN issued : issued[k].generator = 1
    /\ NarrowRun(1)
    /\ {issued[k].caller : k \in DOMAIN issued} = Callers
    /\ \E i, j \in DOMAIN issued : i < j /\ issued[i].timestamp = issued[j].timestamp

\* C2 (as stated): in the order of the successful CAS operations the IDs of
\* one generator never decrease as i64, for every sequence of readings.
C2_Monotone ==
    \A i, j \in DOMAIN issued :
        Earlier(i, j) => I64Le(issued[i].sid, issued[j].sid)

\* C2 (amended): in the order of the successful CAS operations the IDs of
\* one generator never decrease as i64, when every reading it commits is
\* below 2^41.
C2_MonotoneNarrow ==
    \A i, j \in DOMAIN issued :
        Earlier(i, j) /\ NarrowRun(issued[i].generator)
            => I64Le(issued[i].sid, issued[j].sid)

\* C2 witness: one generator has returned IDs in two different milliseconds,
\* from readings below 2^41, after a caller had to wait.
C2_Witness ==
    /\ \E i, j \in DOMAIN issued :
          /\ Earlier(i, j)
          /\ NarrowRun(issued[i].generator)
          /\ issued[i].timestamp # issued[j].timestamp
          /\ issued[i].sequence > 0
    /\ \E p \in Callers : pc[p] = "delay"

\* C3 (as stated): of two IDs of one generator that carry the same timestamp,
\* the one whose CAS came first has the strictly smaller sequence field.
C3_SequenceIncreases ==
    \A i, j \in DOMAIN issued :
        Earlier(i, j) /\ ts_field(issued[i].sid) = ts_field(issued[j].sid)
            => Lt(seq_field(issued[i].sid), seq_field(issued[j].sid))

\* C3 (amended): of two IDs of one generator that carry the same timestamp,
\* the one whose CAS came first has the strictly smaller sequence field,
\* when every reading the generator commits is below 2^41.
C3_SequenceIncreasesNarrow ==
    \A i, j \in DOMAIN issued :
        /\ Earlier(i, j)
        /\ NarrowRun(issued[i].generator)
        /\ ts_field(issued[i].sid) = ts_field(issued[j].sid)
        => Lt(seq_field(issued[i].sid), seq_field(issued[j].sid))

\* C3 witness: one generator has returned three IDs of the same millisecond
\* through the same-timestamp branch.
C3_Witness ==
    \E i, j, k \in DOMAIN issued :
        /\ Earlier(i, j) /\ Earlier(j, k)
        /\ Narrow(issued[i].timestamp)
        /\ issued[i].timestamp = issued[j].timestamp
        /\ issued[j].timestamp = issued[k].timestamp
        /\ issued[k].sequence = issued[i].sequence + 2

\* C4 (as stated): no ID is returned for a reading lower than the timestamp
\* committed in the state word at its CAS, and the timestamp every returned
\* ID carries is not less than that committed timestamp.
C4_NoOlderId ==
    \A k \in DOMAIN issued :
        /\ ~Lt(issued[k].timestamp, current_timestamp(issued[k].before))
        /\ ~Lt(ts_field(issued[k].sid), current_timestamp(issued[k].before))

\* C4 (amended): no ID is returned for a reading lower than the timestamp
\* committed in the state word at its CAS, and the timestamp a returned ID
\* carries is not less than that committed timestamp when its reading is
\* below 2^41.
C4_NoOlderIdNarrow ==
    \A k \in DOMAIN issued :
        /\ ~Lt(issued[k].timestamp, current_timestamp(issued[k].before))
        /\ Narrow(issued[k].timestamp)
            => ~Lt(ts_field(issued[k].sid), current_timestamp(issued[k].before))

\* C4 witness: a caller waits because its reading was lower than the
\* timestamp a generator had committed, and the generator has returned an ID
\* in a later millisecond than its first.
C4_Witness ==
    \E p \in Callers :
        /\ pc[p] = "delay"
        /\ current_sequence(generators[self_[p]].timestamp_sequence) < MAX_SEQUENCE
        /\ \E k \in DOMAIN issued :
              /\ issued[k].generator = self_[p]
              /\ Lt(BitsOf(0), current_timestamp(issued[k].before))
              /\ Lt(current_timestamp(issued[k].before), issued[k].timestamp)

\* C8: every returned Snowflake has bit 63 clear (it is non-negative as i64).
C8_NonNegative ==
    \A k \in DOMAIN issued : 63 \notin issued[k].sid

\* C8 witness: an ID was returned for a reading with bit 63 set by a
\* generator whose identifier is u64::MAX.
C8_Witness ==
    \E k \in DOMAIN issued :
        /\ 63 \in issued[k].timestamp
        /\ generators[issued[k].generator].cfg.identifier = Bits

\* C9: an ID of a generator configured with n has identifier field n mod 1024
\* and is the ID a generator configured with n mod 1024 returns for the same
\* reading and sequence.
C9_IdentifierModular ==
    \A k \in DOMAIN issued :
        LET e == issued[k]
            n == generators[e.generator].cfg.identifier
        IN  /\ id_field(e.sid) = Mod1024(n)
            /\ e.sid = Pack(And(e.timestamp, LowMask(41)), Mod1024(n), BitsOf(e.sequence))
            /\ \A m \in DOMAIN issued :
                  /\ issued[m].timestamp = e.timestamp
                  /\ issued[m].sequence = e.sequence
                  /\ generators[issued[m].generator].cfg.identifier = Mod1024(n)
                  => issued[m].sid = e.sid

\* C9 witness: the generator configured with 2000 and the generator
\* configured with 976 have returned the same ID.
C9_Witness ==
    \E k, m \in DOMAIN issued :
        /\ generators[issued[k].generator].cfg.identifier = BitsOf(2000)
        /\ generators[issued[m].generator].cfg.identifier = BitsOf(976)
        /\ issued[k].timestamp = issued[m].timestamp
        /\ issued[k].sequence = issued[m].sequence
        /\ issued[k].sid = issued[m].sid

\* the last reading of the clock
LastTime == CHOOSE t \in NarrowTimes : \A u \in NarrowTimes : ~Lt(t, u)

\* the clock has stopped at its last reading and generator 1 has used up
\* the sequence of that millisecond: no reading to come can yield an ID
ClockRanOut ==
    /\ clock = LastTime
    /\ current_timestamp(generators[1].timestamp_sequence) = LastTime
    /\ current_sequence(generators[1].timestamp_sequence) >= MAX_SEQUENCE

C6_Rollover ==
    \A k \in DOMAIN issued :
        LET e == issued[k]
            prior == {i \in 1 .. (k - 1) :
                        /\ issued[i].generator = e.generator
                        /\ issued[i].timestamp = e.timestamp}
        IN  /\ e.sequence = Cardinality(prior)
            /\ e.sequence <= MAX_SEQUENCE
            /\ seq_field(e.sid) = BitsOf(e.sequence)

\* C7: every clone of a handle holds the generator of the original, and the
\* IDs returned through the handles are the run of that one generator: the
\* first CAS starts from the word of the constructed generator and every
\* later CAS from the word the CAS before it left.
C7_ClonesShareState ==
    /\ \A w \in DOMAIN persisted : persisted[w].generator = persisted[1].generator
    /\ \A k \in DOMAIN issued :
          /\ issued[k].generator = persisted[1].generator
          /\ issued[k].before = IF k = 1 THEN BitsOf(0) ELSE issued[k - 1].after
    /\ issued # <<>> =>
          generators[persisted[1].generator].timestamp_sequence = issued[Len(issued)].after

\* C7 witness: IDs were returned through the original handle and through its
\* clone, by both callers.
C7_Witness ==
    /\ Len(persisted) = 2
    /\ {issued[k].via : k \in DOMAIN issued} = {1, 2}
    /\ {issued[k].caller : k \in DOMAIN issued} = Callers
    /\ Len(issued) = 3

\* C10: filling(0, t, i, s) is ((t mod 2^41) << 22) | ((i mod 2^10) << 12) |
\* (s mod 2^12), and bits 62-22, 21-12 and 11-0 of it are t mod 2^41,
\* i mod 2^10 and s mod 2^12.
C10_PackExtract ==
    fill_done = FillNames /\ fill_in.dest = BitsOf(0) =>
        LET t == And(fill_in.timestamp, LowMask(41))
            i == And(fill_in.identifier, LowMask(10))
            s == And(fill_in.sequence, LowMask(12))
        IN  /\ fill_out = Pack(t, i, s)
            /\ ts_field(fill_out) = t
            /\ id_field(fill_out) = i
            /\ seq_field(fill_out) = s

\* C10 witness: filling has packed three values that each pass their field
\* into the word 0.
C10_Witness ==
    /\ fill_done = FillNames
    /\ fill_in.dest = BitsOf(0)
    /\ fill_in.timestamp = Bits
    /\ fill_in.identifier = LowMask(11)
    /\ fill_in.sequence = LowMask(13)
    /\ fill_out = LowMask(63)

\* the bit range of the field a packing function writes
FieldBits(name) ==
    IF name = "timestamp" THEN 22 .. 62
    ELSE IF name = "identifier" THEN 12 .. 21
    ELSE 0 .. 11

\* C11: each of fill_timestamp, fill_identifier and fill_sequence leaves every
\* bit outside its own range (62-22, 21-12, 11-0) as it was, bit 63 included,
\* for every word and field value, and the three applied in any order give
\* the word that keeps the other bits of the input and holds the three
\* truncated values.
C11_FillFrame ==
    [][/\ \A name \in FillNames :
              fill_done' \ fill_done = {name} =>
                  fill_out' \ FieldBits(name) = fill_out \ FieldBits(name)
       /\ fill_done' = FillNames =>
              fill_out' =
                  Or(And(fill_in.dest, {63}),
                     Pack(And(fill_in.timestamp, LowMask(41)),
                          And(fill_in.identifier, LowMask(10)),
                          And(fill_in.sequence, LowMask(12))))]_vars

\* C11 witness: the three functions have written values that pass their
\* fields into a word with bit 63 and a bit of every field set; bit 63 is
\* all that is left.
C11_Witness ==
    /\ fill_done = FillNames
    /\ fill_in.dest = {63, 40, 15, 3}
    /\ fill_in.timestamp = {41}
    /\ fill_in.identifier = BitsOf(1024)
    /\ fill_in.sequence = BitsOf(4096)
    /\ fill_out = {63}

\* C12: right after a successful CAS made with the reading now, for any
\* reading the time source may return, the timestamp field of the state word
\* (word >> 16) is now and its low 16 bits are the sequence of the ID
\* returned: 0 when the clock advanced, cur_seq + 1 in the same millisecond.
C12_StateMatchesId ==
    \A k \in DOMAIN issued :
        LET e == issued[k]
        IN  /\ current_timestamp(e.after) = e.timestamp
            /\ And(e.after, LowMask(16)) = seq_field(e.sid)
            /\ e.sequence =
                  IF Lt(current_timestamp(e.before), e.timestamp) THEN 0
                  ELSE current_sequence(e.before) + 1

\* C13: every successful CAS replaces the state word by a strictly greater
\* unsigned value, so no value of the word recurs (no ABA) and no two
\* successful CAS operations of one generator start from the same snapshot.
C13_StrictlyGreater ==
    /\ \A k \in DOMAIN issued : Lt(issued[k].before, issued[k].after)
    /\ \A i, j \in DOMAIN issued :
          Earlier(i, j) =>
              /\ issued[i].after # issued[j].after
              /\ issued[i].before # issued[j].after
              /\ issued[i].before # issued[j].before

\* C14: in every reachable state the low 16 bits of the state word are in
\* 0..4095; the snapshot a caller adds 1 to is below 4095, so the u16
\* addition does not overflow; and the sequence of a returned ID is the one
\* committed, inside the 12 bits of its field.
C14_SequenceInRange ==
    /\ \A g \in Generators :
          current_sequence(generators[g].timestamp_sequence) <= MAX_SEQUENCE
    /\ \A p \in Callers :
          pc[p] = "match" => current_sequence(current[p]) <= MAX_SEQUENCE
    /\ \A k \in DOMAIN issued :
          /\ issued[k].sequence <= MAX_SEQUENCE
          /\ issued[k].sequence = current_sequence(issued[k].after)
          /\ seq_field(issued[k].sid) = BitsOf(issued[k].sequence)

\* C14 witness: the state word holds sequence 4095, the ID with sequence 4095
\* was returned, and a caller that found the sequence exhausted is waiting.
C14_Witness ==
    /\ current_sequence(generators[1].timestamp_sequence) = MAX_SEQUENCE
    /\ \E k \in DOMAIN issued : seq_field(issued[k].sid) = LowMask(12)
    /\ \E p \in Callers :
          /\ pc[p] = "delay"
          /\ current_timestamp(generators[1].timestamp_sequence) = clock

\* C15: an iteration that ends in a wait (sequence exhausted, or clock behind
\* the state word) and an iteration whose CAS fails leave the state word as
\* it was, and so does the end of a wait, by resumption or by the caller
\* giving the call up; the word changes and an ID is issued only in the step
\* in which a call returns that ID, so a call given up while it waits has
\* changed nothing.
C15_WaitsLeaveState ==
    [][/\ \A p \in Callers :
              \/ pc[p] = "match" /\ pc'[p] \in {"loop", "delay"}
              \/ pc[p] = "delay" /\ pc'[p] # "delay"
              => generators' = generators /\ issued' = issued
       /\ generators' # generators \/ issued' # issued =>
              \E p \in Callers :
                  /\ pc[p] = "match" /\ pc'[p] = "idle"
                  /\ issued' # <<>>
                  /\ issued'[Len(issued')].caller = p]_vars

\* C15 witness: every call of the bounded workload is over, one of them was
\* given up while it waited, and the state word is the one the last returned
\* ID left.
C15_Witness ==
    /\ endless = {}
    /\ \A p \in Callers : pc[p] = "idle" /\ todo[p] = 0
    /\ Len(issued) = MaxCalls - 1
    /\ generators[1].timestamp_sequence = issued[Len(issued)].after

\* C16: a CAS fails only if the CAS of another call on the same generator
\* succeeded, and returned an ID, after the failing caller's load: a step in
\* which a caller goes round the loop again because its CAS failed is taken
\* only where such an ID has been issued since its load.
C16_LockFree ==
    [][\A p \in Callers :
           pc[p] = "match" /\ pc'[p] = "loop" =>
               /\ beaten[p]
               /\ generators[self_[p]].timestamp_sequence # current[p]
               /\ \E k \in DOMAIN issued :
                     /\ issued[k].caller # p
                     /\ issued[k].generator = self_[p]
                     /\ issued[k].before = current[p]]_vars

\* C16 witness: a caller is about to fail its CAS: the word it loaded was
\* replaced by the successful CAS of the other caller, whose ID was returned.
C16_Witness ==
    \E p \in Callers :
        /\ pc[p] = "match"
        /\ match_ordering(current[p], timestamp[p]) = "Less"
        /\ generators[self_[p]].timestamp_sequence # current[p]
        /\ beaten[p]
        /\ issued # <<>>
        /\ issued[Len(issued)].caller # p
        /\ issued[Len(issued)].before = current[p]

\* a generator's configured identifier
Configured(g) == generators[g].cfg.identifier

\* C17: every returned Snowflake has in bits 62-22 the reading of the
\* iteration whose CAS succeeded, reduced mod 2^41, and in bits 21-12 the
\* configured identifier of its generator mod 2^10; all the IDs of one
\* generator have the same identifier field.
C17_FieldContents ==
    /\ \A k \in DOMAIN issued :
          /\ ts_field(issued[k].sid) = And(issued[k].timestamp, LowMask(41))
          /\ id_field(issued[k].sid) = And(Configured(issued[k].generator), LowMask(10))
    /\ \A i, j \in DOMAIN issued :
          Earlier(i, j) => id_field(issued[i].sid) = id_field(issued[j].sid)

\* C17 witness: the generator configured with 2000 has returned an ID for a
\* reading of 2^41 + 1 after an ID for a reading below 2^41, and an ID from
\* the same-millisecond branch.
C17_Witness ==
    \E i, j, k \in DOMAIN issued :
        /\ Earlier(i, j) /\ Earlier(j, k)
        /\ Configured(issued[i].generator) = BitsOf(2000)
        /\ Narrow(issued[i].timestamp)
        /\ issued[j].timestamp = {41} \cup BitsOf(1)
        /\ ts_field(issued[j].sid) = BitsOf(1)
        /\ issued[k].sequence > 0
        /\ id_field(issued[k].sid) = BitsOf(976)

\* C18: the first ID a freshly constructed generator returns has sequence 0,
\* for every reading of the time source, a reading of 0 included.
C18_FirstSequenceZero ==
    \A k \in DOMAIN issued :
        (\A i \in DOMAIN issued : ~Earlier(i, k)) =>
            /\ issued[k].sequence = 0
            /\ seq_field(issued[k].sid) = BitsOf(0)

\* C19: two generators with state words of their own, whose configured
\* identifiers differ mod 1024, never return equal IDs, whatever their time
\* sources read and however their calls interleave.
C19_DistinctAcrossGenerators ==
    \A i, j \in DOMAIN issued :
        /\ issued[i].generator # issued[j].generator
        /\ And(Configured(issued[i].generator), LowMask(10))
              # And(Configured(issued[j].generator), LowMask(10))
        => issued[i].sid # issued[j].sid

\* C19 witness: the generators configured with u64::MAX and with 53 have
\* each returned an ID for the same reading with the same sequence, and one
\* of them a second ID in that millisecond.
C19_Witness ==
    /\ Configured(1) = Bits /\ Configured(2) = BitsOf(53)
    /\ \E i, j, k \in DOMAIN issued :
          /\ issued[i].generator = 1
          /\ issued[j].generator = 2
          /\ issued[i].timestamp = issued[j].timestamp
          /\ issued[i].sequence = issued[j].sequence
          /\ ts_field(issued[i].sid) = ts_field(issued[j].sid)
          /\ seq_field(issued[i].sid) = seq_field(issued[j].sid)
          /\ k \notin {i, j}
          /\ issued[k].timestamp = issued[i].timestamp

\* the records of generator g before the k-th of the log
Before(g, k) == {i \in 1 .. (k - 1) : issued[i].generator = g}

\* the state word the CAS operations of the first k records have left in
\* generator g, counting no other generator's
WordAfter(g, k) ==
    IF Before(g, k + 1) = {} THEN BitsOf(0)
    ELSE issued[CHOOSE i \in Before(g, k + 1) :
                    \A m \in Before(g, k + 1) : m <= i].after

\* C20: two generators with the same identifier do not coordinate: the state
\* word of each is the result of its own successful CAS operations alone,
\* every CAS starts from the word its own generator's CAS before it left,
\* and IDs of the two generators are equal exactly when their timestamp and
\* sequence fields are. (That both return the same ID, and IDs out of order
\* relative to each other, is the state C20_Witness names.)
C20_NoCoordination ==
    /\ \A g \in Generators :
          generators[g].timestamp_sequence = WordAfter(g, Len(issued))
    /\ \A k \in DOMAIN issued :
          issued[k].before = WordAfter(issued[k].generator, k - 1)
    /\ \A i, j \in DOMAIN issued :
          issued[i].generator # issued[j].generator =>
              (issued[i].sid = issued[j].sid <=>
                  /\ ts_field(issued[i].sid) = ts_field(issued[j].sid)
                  /\ seq_field(issued[i].sid) = seq_field(issued[j].sid))

\* C20 witness: the two generators have returned the same ID value (each its
\* first ID of the same millisecond), and one generator has returned an ID
\* that is less than an ID the other had returned before it, all from
\* readings below 2^41.
C20_Witness ==
    /\ Configured(1) = Configured(2)
    /\ \A k \in DOMAIN issued : Narrow(issued[k].timestamp)
    /\ \E i, j \in DOMAIN issued :
          /\ issued[i].generator # issued[j].generator
          /\ issued[i].sid = issued[j].sid
          /\ issued[i].sequence = 0 /\ issued[j].sequence = 0
          /\ issued[i].timestamp = issued[j].timestamp
    /\ \E i, j \in DOMAIN issued :
          /\ i < j
          /\ issued[i].generator # issued[j].generator
          /\ issued[i].sid # issued[j].sid
          /\ I64Le(issued[j].sid, issued[i].sid)

====
